---- MODULE Spec2Model ----
(***************************************************************************)
(* RCS-Summary: the period resolver (app.get_date_ranges), the count-style *)
(* pivot builders (traffic.create_traffic_pivot, od.create_od_pivot) and   *)
(* the dashboard run (app.main with app.create_rcs_pivot and               *)
(* app.create_od_pivot), as state machines over the values the Python code *)
(* computes.                                                               *)
(***************************************************************************)
EXTENDS Integers, Sequences, FiniteSets, TLC

VARIABLES
    pc,       \* position of the run: which function is about to run / has run
    today,    \* the value datetime.now() returned to the function that ran
    dates,    \* what get_date_ranges returned (or the exception it raised)
    dfs,      \* the mapping period -> frame handed to a pivot builder
    work,     \* the pivot builder's table just before result.round(0)
    result,   \* what the pivot builder returned (or the exception it raised)
    run,      \* app.main: its locals, what it displayed and what it reported
    mail      \* mailer.send_summary_email: the session and what it returned

vars == <<pc, today, dates, dfs, work, result, run, mail>>

(***************************************************************************)
(* Calendar arithmetic of datetime / calendar, on [year, month, day].      *)
(***************************************************************************)
Date(y, m, d) == [year |-> y, month |-> m, day |-> d]

IsLeap(y) == (y % 4 = 0 /\ y % 100 /= 0) \/ y % 400 = 0

\* calendar.monthrange(year, month)[1]
monthrange(y, m) ==
    IF m = 2 THEN (IF IsLeap(y) THEN 29 ELSE 28)
    ELSE IF m \in {4, 6, 9, 11} THEN 30 ELSE 31

\* dt - timedelta(days=1)
MinusOneDay(dt) ==
    IF dt.day > 1 THEN Date(dt.year, dt.month, dt.day - 1)
    ELSE IF dt.month > 1
         THEN Date(dt.year, dt.month - 1, monthrange(dt.year, dt.month - 1))
         ELSE Date(dt.year - 1, 12, 31)

\* dt.replace(day=d) raises ValueError when the month has no day d
CanReplaceDay(dt, d) == d \in 1..monthrange(dt.year, dt.month)
ReplaceDay(dt, d) == Date(dt.year, dt.month, d)

\* dt.strftime('%Y-%m-%d'): the ten characters, digits as numbers
Pad2(n) == <<n \div 10, n % 10>>
Pad4(n) == <<n \div 1000, (n \div 100) % 10, (n \div 10) % 10, n % 10>>
format_date(dt) ==
    Pad4(dt.year) \o <<"-">> \o Pad2(dt.month) \o <<"-">> \o Pad2(dt.day)

NoValue == <<>>

\* app.get_date_ranges with datetime.now() = t
get_date_ranges(t) ==
    LET yesterday  == MinusOneDay(t)
        last_month == MinusOneDay(ReplaceDay(t, 1))
    IN  IF ~CanReplaceDay(last_month, yesterday.day)
        THEN [exc |-> "ValueError", val |-> NoValue]
        ELSE [exc |-> "None",
              val |-> [ftd  |-> <<format_date(yesterday), format_date(yesterday)>>,
                       mtd  |-> <<format_date(ReplaceDay(t, 1)),
                                  format_date(yesterday)>>,
                       lmtd |-> <<format_date(ReplaceDay(last_month, 1)),
                                  format_date(ReplaceDay(last_month,
                                                         yesterday.day))>>]]

(***************************************************************************)
(* Table cells.  A cell is NaN or the number n/d: integer counters have    *)
(* d = 1, od.fetch_od_data's millions have d = Scale, and a projection     *)
(* MTD * (days_in_month / days_completed) has d multiplied by the day.     *)
(***************************************************************************)
Q(n, d) == [nan |-> FALSE, inf |-> 0, n |-> n, d |-> d]
NaN == [nan |-> TRUE, inf |-> 0, n |-> 0, d |-> 1]
\* float('inf') (sign 1) and float('-inf') (sign -1)
Inf(sign) == [nan |-> FALSE, inf |-> sign, n |-> 0, d |-> 1]

RECURSIVE SumN(_)
SumN(cells) ==
    IF cells = <<>> THEN 0
    ELSE (IF Head(cells).nan \/ Head(cells).inf /= 0 THEN 0 ELSE Head(cells).n)
         + SumN(Tail(cells))

\* Series.sum(): NaN cells are skipped, the sum of nothing is 0; an
\* infinity absorbs the numbers, and inf + -inf is NaN
SumCells(cells, unit) ==
    LET pos == \E i \in DOMAIN cells : cells[i].inf = 1
        neg == \E i \in DOMAIN cells : cells[i].inf = -1
    IN  IF pos /\ neg THEN NaN
        ELSE IF pos THEN Inf(1)
        ELSE IF neg THEN Inf(-1)
        ELSE Q(SumN(cells), unit)

\* a - b on cells of one table (same d): NaN if either side is NaN
SubCells(a, b) == IF a.nan \/ b.nan THEN NaN ELSE Q(a.n - b.n, a.d)

\* cell * (num / den)
ScaleCell(a, num, den) == IF a.nan THEN NaN ELSE Q(a.n * num, a.d * den)

\* numpy round(0) of n/d (ties go to the even integer), then astype(int)
RoundHalfEven(n, d) ==
    LET q == n \div d
        r == n % d
    IN  IF 2 * r < d THEN q
        ELSE IF 2 * r > d THEN q + 1
        ELSE IF q % 2 = 0 THEN q ELSE q + 1

RoundCell(a) == IF a.nan THEN NaN ELSE Q(RoundHalfEven(a.n, a.d), 1)

(***************************************************************************)
(* Row labels are sequences of words, so that str.contains('Total') and    *)
(* f'Total {vtype}' are computed on the text of the label.                 *)
(***************************************************************************)
RECURSIVE Concat(_)
Concat(ss) == IF ss = <<>> THEN <<>> ELSE Head(ss) \o Concat(Tail(ss))

\* label.str.contains('Total')
ContainsTotal(label) == \E i \in DOMAIN label : label[i] = "Total"

\* f'Total {vtype}'
TotalLabel(vtype) == <<"Total">> \o vtype

GrandLabel == <<"G.", "Total">>

PeriodCols == << <<"FTD">>, <<"MTD">>, <<"LMTD">> >>

\* strftime('%b%y') of a date: the month's abbreviation and two digits
MonthAbbr == <<"Jan", "Feb", "Mar", "Apr", "May", "Jun",
               "Jul", "Aug", "Sep", "Oct", "Nov", "Dec">>
Digit == <<"0", "1", "2", "3", "4", "5", "6", "7", "8", "9">>
strftime_b_y(dt) ==
    <<MonthAbbr[dt.month], Digit[((dt.year % 100) \div 10) + 1],
      Digit[(dt.year % 10) + 1]>>

\* last_month = today.replace(day=1) - timedelta(days=1), and the month
\* before it
LastMonth(t) == MinusOneDay(ReplaceDay(t, 1))
LastLastMonth(t) == MinusOneDay(ReplaceDay(LastMonth(t), 1))
last_month_name(t) == strftime_b_y(LastMonth(t))
last_last_month_name(t) == strftime_b_y(LastLastMonth(t))

\* frame[col]: one column of a frame or of a table
Column(rows, col) == [i \in DOMAIN rows |-> rows[i][col]]

\* One row of the table: its label, the period cells, the historical-month
\* cells (m1 for last_month_name, m2 for last_last_month_name) and the
\* derived cells.  kind and owner record which loop produced the row; the
\* builders never read them.
Row(label, kind, owner, c) ==
    [Index |-> label, kind |-> kind, owner |-> owner,
     FTD |-> c.FTD, MTD |-> c.MTD, LMTD |-> c.LMTD,
     m1 |-> c.m1, m2 |-> c.m2, Growth |-> NaN, Projection |-> NaN]

\* period_df[mask][value].sum() for one period; NaN when the period is not
\* a key of dfs (the row dict then has no entry for the column)
PeriodSum(d, period, unit) ==
    IF period \in DOMAIN d
    THEN SumCells(Column(d[period], "val"), unit)
    ELSE NaN

\* the row dict built from the frames d, already cut down by the row's mask
RowCells(d, unit) ==
    [FTD  |-> PeriodSum(d, "FTD", unit),
     MTD  |-> PeriodSum(d, "MTD", unit),
     LMTD |-> PeriodSum(d, "LMTD", unit),
     m1   |-> PeriodSum(d, "last_month", unit),
     m2   |-> PeriodSum(d, "last_last_month", unit)]

\* org_df = period_df[period_df[org column] == org], in every period
OrgFrames(d, org) ==
    [p \in DOMAIN d |-> SelectSeq(d[p], LAMBDA r : r.org = org)]

\* org_df[org_df[type column] == vtype], in every period
TypeFrames(d, vtype) ==
    [p \in DOMAIN d |-> SelectSeq(d[p], LAMBDA r : r.typ = vtype)]

\* the columns of all_data: the three it is created with, plus a column per
\* historical key of dfs once a row dict has been concatenated
DataCols(d, rows, t) ==
    PeriodCols \o
    (IF rows = <<>> THEN <<>>
     ELSE (IF "last_month" \in DOMAIN d THEN <<last_month_name(t)>> ELSE <<>>)
          \o (IF "last_last_month" \in DOMAIN d
              THEN <<last_last_month_name(t)>> ELSE <<>>))

HasCol(cols, col) == \E i \in DOMAIN cols : cols[i] = col

\* kept[col].sum() for every col in result.columns, kept being the rows of
\* result the mask selects
ColumnSums(kept, cols, unit, t) ==
    LET sum(col, field) ==
            IF HasCol(cols, col) THEN SumCells(Column(kept, field), unit)
            ELSE NaN
    IN  [FTD  |-> sum(<<"FTD">>, "FTD"),
         MTD  |-> sum(<<"MTD">>, "MTD"),
         LMTD |-> sum(<<"LMTD">>, "LMTD"),
         m1   |-> sum(last_month_name(t), "m1"),
         m2   |-> sum(last_last_month_name(t), "m2")]

\* sorted(frame[org column].unique()) over the names of the model,
\* NamesSorted being all of them in sorted order
SortedUnique(frame, NamesSorted) ==
    SelectSeq(NamesSorted, LAMBDA nm : \E i \in DOMAIN frame : frame[i].org = nm)

(***************************************************************************)
(* The count-style pivot builder.  traffic.create_traffic_pivot and        *)
(* od.create_od_pivot are the same text over different column names and    *)
(* type lists; the frames are read through their three columns org, typ    *)
(* and val.                                                                *)
(***************************************************************************)
\* lines 73-105: one row per organization of dfs['FTD'], in sorted order,
\* each followed by one row per type of the fixed list
OrgBlocks(d, types, unit, NamesSorted) ==
    LET orgs == SortedUnique(d["FTD"], NamesSorted)
        block(org) ==
            <<Row(org, "org", org, RowCells(OrgFrames(d, org), unit))>>
            \o [j \in DOMAIN types |->
                    Row(types[j], "type", org,
                        RowCells(TypeFrames(OrgFrames(d, org), types[j]),
                                 unit))]
    IN  Concat([i \in DOMAIN orgs |-> block(orgs[i])])

\* the type totals with the mask result.index == vtype left out: every row
\* of the table is added up
RECURSIVE AddTypeTotalsUnmasked(_, _, _, _, _)
AddTypeTotalsUnmasked(rows, types, cols, unit, t) ==
    IF types = <<>> THEN rows
    ELSE AddTypeTotalsUnmasked(
            Append(rows,
                   Row(TotalLabel(Head(types)), "total", <<>>,
                       ColumnSums(rows, cols, unit, t))),
            Tail(types), cols, unit, t)

\* lines 110-115: result.loc[f'Total {vtype}'] = the sums of the rows whose
\* label equals vtype, one type after the other
RECURSIVE AddTypeTotals(_, _, _, _, _)
AddTypeTotals(rows, types, cols, unit, t) ==
    IF types = <<>> THEN rows
    ELSE AddTypeTotals(
            Append(rows,
                   Row(TotalLabel(Head(types)), "total", <<>>,
                       ColumnSums(
                           SelectSeq(rows, LAMBDA r : r.Index = Head(types)),
                           cols, unit, t))),
            Tail(types), cols, unit, t)

\* lines 117-119: result[~result.index.str.contains('Total')].sum()
AddGrandTotal(rows, cols, unit, t) ==
    Append(rows,
           Row(GrandLabel, "grand", <<>>,
               ColumnSums(
                   SelectSeq(rows, LAMBDA r : ~ContainsTotal(r.Index)),
                   cols, unit, t)))

\* the divisor of the projection: days_completed = today.day
days_completed(t) == t.day

\* lines 121-128: Growth = MTD - LMTD, Projection = MTD * (days_in_month /
\* days_completed)
AddDerived(rows, t) ==
    [i \in DOMAIN rows |->
        [rows[i] EXCEPT !.Growth = SubCells(rows[i].MTD, rows[i].LMTD),
                        !.Projection =
                            ScaleCell(rows[i].MTD, monthrange(t.year, t.month),
                                      days_completed(t))]]

\* the table just before result.round(0): rows and columns
PivotWork(d, t, types, unit, NamesSorted) ==
    LET all_data == OrgBlocks(d, types, unit, NamesSorted)
        cols == DataCols(d, all_data, t)
        rows == AddDerived(
                    AddGrandTotal(AddTypeTotals(all_data, types, cols, unit, t),
                                  cols, unit, t), t)
    IN  [rows |-> rows, cols |-> cols \o << <<"Growth">>, <<"Projection">> >>]

\* a NaN in a column that exists makes astype(int) raise
HasNaN(w, t) ==
    \E i \in DOMAIN w.rows :
        LET r == w.rows[i]
        IN  \/ r.FTD.nan \/ r.MTD.nan \/ r.LMTD.nan
            \/ r.Growth.nan \/ r.Projection.nan
            \/ (HasCol(w.cols, last_month_name(t)) /\ r.m1.nan)
            \/ (HasCol(w.cols, last_last_month_name(t)) /\ r.m2.nan)

RoundRow(r) ==
    [r EXCEPT !.FTD = RoundCell(r.FTD), !.MTD = RoundCell(r.MTD),
              !.LMTD = RoundCell(r.LMTD), !.m1 = RoundCell(r.m1),
              !.m2 = RoundCell(r.m2), !.Growth = RoundCell(r.Growth),
              !.Projection = RoundCell(r.Projection)]

\* the reindex of lines 137-145
FinalCols(t) ==
    PeriodCols \o << <<"Growth">>, <<"Projection">>,
                     last_month_name(t), last_last_month_name(t) >>

EmptyWork == [rows |-> <<>>, cols |-> <<>>]
NoDfs == <<>>
NoTable == [exc |-> "None", rows |-> <<>>, cols |-> <<>>]
\* app.main not started: no mapping, no frames, nothing displayed
NoRun == [mapping |-> <<>>, rcs_dfs |-> <<>>, od_dfs |-> <<>>, failed |-> {},
          i |-> 0, rows |-> 0, shown |-> <<>>, error |-> "None"]

\* send_summary_email not called
NoMail == [recipients |-> <<>>, exists |-> FALSE, attached |-> FALSE,
           connected |-> FALSE, tls |-> FALSE, auth |-> FALSE,
           sent |-> FALSE, failed |-> "none", ret |-> "none"]

\* the whole builder: [exc, rows, cols] returned, and the table before
\* rounding
Pivot(d, t, types, unit, NamesSorted) ==
    IF DOMAIN d = {}
    THEN [work |-> EmptyWork,
          ret  |-> [exc |-> "None", rows |-> <<>>, cols |-> PeriodCols]]
    ELSE IF "FTD" \notin DOMAIN d
    THEN [work |-> EmptyWork,
          ret  |-> [exc |-> "KeyError", rows |-> <<>>, cols |-> <<>>]]
    ELSE LET w == PivotWork(d, t, types, unit, NamesSorted)
         IN  IF HasNaN(w, t)
             THEN [work |-> w,
                   ret  |-> [exc |-> "ValueError", rows |-> <<>>, cols |-> <<>>]]
             ELSE [work |-> w,
                   ret  |-> [exc |-> "None", rows |-> [i \in DOMAIN w.rows |->
                                          RoundRow(w.rows[i])],
                             cols |-> FinalCols(t)]]

(***************************************************************************)
(* traffic.py and od.py: the records and the two builders.                 *)
(***************************************************************************)
\* for vtype in ['CPL', 'Enterprise', 'OD']
TrafficTypes == << <<"CPL">>, <<"Enterprise">>, <<"OD">> >>

\* for ptype in ['Single Part', 'Multipart']
PartTypes == << <<"Single", "Part">>, <<"Multipart">> >>

\* df[col] / 1_000_000
Scale == 1000000

\* a classifier that leaves every content type but 'Basic' as it is
PartTypeAsContent(content) ==
    IF content = "Basic" THEN <<"Single", "Part">> ELSE <<content>>

\* lambda x: 'Single Part' if x == 'Basic' else 'Multipart'
PartTypeOf(content) ==
    IF content = "Basic" THEN <<"Single", "Part">> ELSE <<"Multipart">>

\* od.fetch_od_data on one row of the query result
fetch_od_data_row(raw) ==
    [Aggregator |-> raw.Aggregator, ContentType |-> raw.ContentType,
     Sent |-> Q(raw.Sent, Scale), PartType |-> PartTypeOf(raw.ContentType)]

\* the names the record source delivers, in sorted order
OrgNames == << <<"A">>, <<"B">> >>
AggregatorNames == << <<"Karix">>, <<"ValueFirst">> >>

SeqRange(s) == {s[i] : i \in DOMAIN s}

\* the category of a traffic record, after fetch_traffic_data's back-fill:
\* any non-empty label
Categories == {<<"OD">>, <<"Promo">>}
Counters == {1, 2}

TrafficRecords ==
    [vcORGName : SeqRange(OrgNames), vcType : Categories,
     iTotalSentSuccess : Counters]

ContentTypes == {"Basic", "Rich"}
RawSents == {400000}

OdRawRecords ==
    [Aggregator : SeqRange(AggregatorNames), ContentType : ContentTypes,
     Sent : RawSents]

\* the columns the traffic builder reads: vcORGName, vcType and
\* iTotalSentSuccess
TrafficColumns(d) ==
    [p \in DOMAIN d |->
        [i \in DOMAIN d[p] |->
            [org |-> d[p][i].vcORGName, typ |-> d[p][i].vcType,
             val |-> Q(d[p][i].iTotalSentSuccess, 1)]]]

\* the columns the od builder reads: Aggregator, PartType and Sent
OdColumns(d) ==
    [p \in DOMAIN d |->
        [i \in DOMAIN d[p] |->
            [org |-> d[p][i].Aggregator, typ |-> d[p][i].PartType,
             val |-> d[p][i].Sent]]]

create_traffic_pivot(d, t) ==
    Pivot(TrafficColumns(d), t, TrafficTypes, 1, OrgNames)

create_od_pivot(d, t) ==
    Pivot(OdColumns(d), t, PartTypes, Scale, AggregatorNames)

(***************************************************************************)
(* A caller builds the mapping period -> frame and calls one builder.      *)
(***************************************************************************)
MaxRows == 2

MainKeys == {"FTD", "MTD", "LMTD"}
PeriodKeys == MainKeys \cup {"last_month", "last_last_month"}

\* the mappings a caller hands over: any of the three periods may be absent,
\* and the two historical months come together with all three
KeySets == (SUBSET MainKeys) \cup {PeriodKeys}

\* the 1st of a month, and the 11th of a 30-day month
PivotDates == {Date(2023, 4, 1), Date(2023, 4, 11)}

NotRead == Date(1, 1, 1)

RECURSIVE SumLen(_, _)
SumLen(d, keys) ==
    IF keys = {} THEN 0
    ELSE LET k == CHOOSE x \in keys : TRUE
         IN  Len(d[k]) + SumLen(d, keys \ {k})

TotalRows(d) == SumLen(d, DOMAIN d)

InitPivot ==
    /\ pc \in {"traffic", "od"}
    /\ \E keys \in KeySets : dfs = [k \in keys |-> <<>>]
    /\ today = NotRead
    /\ dates = [exc |-> "None", val |-> NoValue]
    /\ work = EmptyWork
    /\ result = NoTable
    /\ run = NoRun
    /\ mail = NoMail

\* a row of traffic.fetch_traffic_data's frame for period p
FetchTrafficRow ==
    /\ pc = "traffic"
    /\ TotalRows(dfs) < MaxRows
    /\ \E p \in DOMAIN dfs, r \in TrafficRecords :
          dfs' = [dfs EXCEPT ![p] = Append(@, r)]
    /\ UNCHANGED <<mail, pc, today, dates, work, result, run>>

\* a row of od.fetch_od_data's frame for period p
FetchOdRow ==
    /\ pc = "od"
    /\ TotalRows(dfs) < MaxRows
    /\ \E p \in DOMAIN dfs, raw \in OdRawRecords :
          dfs' = [dfs EXCEPT ![p] = Append(@, fetch_od_data_row(raw))]
    /\ UNCHANGED <<mail, pc, today, dates, work, result, run>>

CreateTrafficPivot ==
    /\ pc = "traffic"
    /\ \E t \in PivotDates :
          LET out == create_traffic_pivot(dfs, t)
          IN  /\ today' = t
              /\ work' = out.work
              /\ result' = out.ret
    /\ pc' = "traffic_done"
    /\ UNCHANGED <<mail, dates, dfs, run>>

CreateOdPivot ==
    /\ pc = "od"
    /\ \E t \in PivotDates :
          LET out == create_od_pivot(dfs, t)
          IN  /\ today' = t
              /\ work' = out.work
              /\ result' = out.ret
    /\ pc' = "od_done"
    /\ UNCHANGED <<mail, dates, dfs, run>>

NextPivot ==
    \/ FetchTrafficRow
    \/ FetchOdRow
    \/ CreateTrafficPivot
    \/ CreateOdPivot

SpecPivot == InitPivot /\ [][NextPivot]_vars

(***************************************************************************)
(* Properties of the count-style builders (checked under SpecPivot).       *)
(***************************************************************************)
PivotDone == pc \in {"traffic_done", "od_done"}
PivotReturned == PivotDone /\ result.exc = "None"

\* the sum of one column over some rows of a table whose cells share d
ColTotal(rows, col) == SumCells(Column(rows, col), 1).n

OrgRows(rows) == SelectSeq(rows, LAMBDA r : r.kind = "org")
SubRows(rows, org) ==
    SelectSeq(rows, LAMBDA r : r.kind = "type" /\ r.owner = org)
TypeRows(rows, vtype) ==
    SelectSeq(rows, LAMBDA r : r.kind = "type" /\ r.Index = vtype)

\* row r agrees with the sum of rows part in the three period columns
PeriodsAddUp(r, part) ==
    /\ r.FTD.n = ColTotal(part, "FTD")
    /\ r.MTD.n = ColTotal(part, "MTD")
    /\ r.LMTD.n = ColTotal(part, "LMTD")

RecordOrg(rec) ==
    IF pc = "traffic_done" THEN rec.vcORGName ELSE rec.Aggregator

RecordsOf(d) == UNION {SeqRange(d[p]) : p \in DOMAIN d}

\* C1: the 'G. Total' row equals the sum of the top-level organization
\* (aggregator) rows only, in FTD, MTD and LMTD, for every set of records:
\* sub-rows and 'Total <type>' rows are not counted.
C1_GrandTotalIsSumOfOrgRows ==
    PivotReturned =>
        \A i \in DOMAIN work.rows :
            work.rows[i].kind = "grand" =>
                PeriodsAddUp(work.rows[i], OrgRows(work.rows))

\* C2: when a period is absent from the mapping handed to the builder, the
\* builder does not raise, the absent period is 0 in every row, and with
\* LMTD absent the Growth of every row equals its MTD value.
C2_AbsentPeriodIsZero ==
    (PivotDone /\ MainKeys \ DOMAIN dfs /= {}) =>
        /\ result.exc = "None"
        /\ \A i \in DOMAIN result.rows :
              LET r == result.rows[i]
              IN  /\ "FTD" \notin DOMAIN dfs => r.FTD = Q(0, 1)
                  /\ "MTD" \notin DOMAIN dfs => r.MTD = Q(0, 1)
                  /\ "LMTD" \notin DOMAIN dfs =>
                        (r.LMTD = Q(0, 1) /\ r.Growth = r.MTD)

C5_OrgRowIsSumOfSubRows ==
    (PivotReturned /\ pc = "traffic_done") =>
        \A i \in DOMAIN result.rows :
            result.rows[i].kind = "org" =>
                PeriodsAddUp(result.rows[i],
                             SubRows(result.rows, result.rows[i].owner))

\* C6: every organization (aggregator) with a record in any supplied period
\* has a top-level row; one without FTD records has 0 in its FTD cell.
C6_EveryOrgHasRow ==
    PivotReturned =>
        \A rec \in RecordsOf(dfs) :
            \E i \in DOMAIN result.rows :
                /\ result.rows[i].kind = "org"
                /\ result.rows[i].Index = RecordOrg(rec)
                /\ (\A x \in SeqRange(dfs["FTD"]) :
                        RecordOrg(x) /= RecordOrg(rec))
                   => result.rows[i].FTD = Q(0, 1)

\* the days of the current month elapsed before the run date: the days of
\* the MTD range [first of month, run date - 1]
DaysElapsed(t) == t.day - 1

\* C7: in every row Projection = MTD * days_in_current_month / days_elapsed,
\* days_elapsed being the days of the month before the run date.
C7_ProjectionUsesElapsedDays ==
    (PivotReturned /\ DaysElapsed(today) > 0) =>
        \A i \in DOMAIN work.rows :
            LET r == work.rows[i]
                k == r.Projection.d \div r.MTD.d
            IN  r.Projection.n * DaysElapsed(today) =
                    r.MTD.n * monthrange(today.year, today.month) * k

\* C8: on the 1st of a month (zero elapsed days) the builders do not raise
\* and Projection is 0 in every row, whatever MTD records are supplied; the
\* divisor of the projection is never 0.
C8_ProjectionZeroOnFirst ==
    (PivotDone /\ MainKeys \subseteq DOMAIN dfs) =>
        /\ days_completed(today) /= 0
        /\ DaysElapsed(today) = 0 =>
              /\ result.exc = "None"
              /\ \A i \in DOMAIN result.rows :
                    result.rows[i].Projection = Q(0, 1)

(***************************************************************************)
(* app.py: the ratio-style builders create_rcs_pivot and create_od_pivot   *)
(* (the same text over different column names).                            *)
(***************************************************************************)
\* period.upper()
Upper(period) ==
    IF period = "ftd" THEN "FTD"
    ELSE IF period = "mtd" THEN "MTD"
    ELSE IF period = "lmtd" THEN "LMTD"
    ELSE IF period = "prev" THEN "PREV"
    ELSE IF period = "prev_prev" THEN "PREV_PREV"
    ELSE period

\* the keys of df.groupby([org, type])[value].sum()
GroupKeys(frame) == {<<frame[i].org, frame[i].typ>> : i \in DOMAIN frame}

\* pd.DataFrame(summary): a column per period.upper(), a row per key of any
\* period (in sorted order); a key a period has no records for is NaN there
PeriodCell(d, period, key) ==
    IF \E p \in DOMAIN d : Upper(p) = period /\ key \in GroupKeys(d[p])
    THEN LET p == CHOOSE q \in DOMAIN d : Upper(q) = period
         IN  SumCells(Column(SelectSeq(d[p],
                                       LAMBDA r : <<r.org, r.typ>> = key),
                             "val"), 1)
    ELSE NaN

\* ((MTD - LMTD) / LMTD * 100).round(2)
GrowthPct(m, l) ==
    IF m.nan \/ l.nan THEN NaN
    ELSE IF l.n = 0
         THEN (IF m.n > 0 THEN Inf(1) ELSE IF m.n < 0 THEN Inf(-1) ELSE NaN)
         ELSE Q(RoundHalfEven((m.n - l.n) * 10000, l.n), 100)

\* (MTD * (days_in_month / current_day)).round(2)
ProjOf(m, t) ==
    IF m.nan THEN NaN
    ELSE Q(RoundHalfEven(m.n * monthrange(t.year, t.month) * 100, m.d * t.day),
           100)

RatioRow(label, kind, sub, c) ==
    [Index |-> label, kind |-> kind, sub |-> sub,
     FTD |-> c.FTD, MTD |-> c.MTD, LMTD |-> c.LMTD,
     Growth |-> c.Growth, Proj |-> c.Proj]

\* rows.sum() column by column
RatioSums(rows) ==
    [FTD    |-> SumCells(Column(rows, "FTD"), 1),
     MTD    |-> SumCells(Column(rows, "MTD"), 1),
     LMTD   |-> SumCells(Column(rows, "LMTD"), 1),
     Growth |-> SumCells(Column(rows, "Growth"), 100),
     Proj   |-> SumCells(Column(rows, "Proj"), 100)]

\* index.get_level_values(level).unique(): values in order of appearance
RECURSIVE UniqueInOrder(_, _)
UniqueInOrder(s, seen) ==
    IF s = <<>> THEN <<>>
    ELSE IF Head(s) \in seen THEN UniqueInOrder(Tail(s), seen)
    ELSE <<Head(s)>> \o UniqueInOrder(Tail(s), seen \cup {Head(s)})

\* the data rows: one per (org, type) key, Growth and Proj computed per row
RatioDataRows(d, t, OrgsSorted, TypesSorted) ==
    LET keys == UNION {GroupKeys(d[p]) : p \in DOMAIN d}
        index == Concat([i \in DOMAIN OrgsSorted |->
                            SelectSeq([j \in DOMAIN TypesSorted |->
                                          <<OrgsSorted[i], TypesSorted[j]>>],
                                      LAMBDA k : k \in keys)])
        row(key) ==
            LET f == PeriodCell(d, "FTD", key)
                m == PeriodCell(d, "MTD", key)
                l == PeriodCell(d, "LMTD", key)
            IN  RatioRow(key[1] \o <<",">> \o key[2], "data", key,
                         [FTD |-> f, MTD |-> m, LMTD |-> l,
                          Growth |-> GrowthPct(m, l), Proj |-> ProjOf(m, t)])
    IN  [i \in DOMAIN index |-> row(index[i])]

\* type_totals: "Total - <type>" per type in the index, then 'Grand Total'
\* = pivot_df.groupby(level=0).sum().sum()
RatioTotals(data) ==
    LET types == UniqueInOrder([i \in DOMAIN data |-> data[i].sub[2]], {})
        orgs  == UniqueInOrder([i \in DOMAIN data |-> data[i].sub[1]], {})
        perOrg == [i \in DOMAIN orgs |->
                      RatioRow(orgs[i], "group", <<orgs[i], <<>>>>,
                               RatioSums(SelectSeq(data,
                                             LAMBDA r : r.sub[1] = orgs[i])))]
    IN  [j \in DOMAIN types |->
            RatioRow(<<"Total", "-">> \o types[j], "total", << <<>>, types[j]>>,
                     RatioSums(SelectSeq(data,
                                         LAMBDA r : r.sub[2] = types[j])))]
        \o <<RatioRow(<<"Grand", "Total">>, "grand", << <<>>, <<>> >>,
                      RatioSums(perOrg))>>

UpperKeys(d) == {Upper(p) : p \in DOMAIN d}

\* the whole builder. pivot_df['MTD'] and pivot_df['LMTD'] (Growth) and
\* pivot_df[column_order] raise KeyError when the period is no key of dfs
RatioPivot(d, t, OrgsSorted, TypesSorted) ==
    IF ~({"FTD", "MTD", "LMTD"} \subseteq UpperKeys(d))
    THEN [exc |-> "KeyError", rows |-> <<>>, cols |-> <<>>]
    ELSE LET data == RatioDataRows(d, t, OrgsSorted, TypesSorted)
         IN  [exc |-> "None", rows |-> data \o RatioTotals(data),
              cols |-> PeriodCols \o << <<"Growth">>, <<"Proj">> >>]

\* the categories apply_mapping can produce, in sorted order
MappedTypes == << <<"CPL">>, <<"Enterprise">>, <<"OD">> >>
ContentLabels == << <<"Basic">>, <<"Rich">> >>

\* groupby(['Aggregator', 'ContentType'])['Sent']
ContentColumns(d) ==
    [p \in DOMAIN d |->
        [i \in DOMAIN d[p] |->
            [org |-> d[p][i].Aggregator, typ |-> <<d[p][i].ContentType>>,
             val |-> Q(d[p][i].Sent, 1)]]]

create_rcs_pivot(d, t) ==
    RatioPivot(TrafficColumns(d), t, OrgNames, MappedTypes)

app_create_od_pivot(d, t) ==
    RatioPivot(ContentColumns(d), t, AggregatorNames, ContentLabels)

(***************************************************************************)
(* app.main: load the mapping, resolve the periods, fetch both sources for *)
(* each period, then build and display the two summaries.                  *)
(***************************************************************************)
\* a mapped value that is empty in mapping.csv (read_csv gives NaN)
NoLabel == <<>>

\* apply_mapping: vcType = vcAgentID.map(mapping), then fillna('Enterprise')
apply_mapping(frame, mapping) ==
    [i \in DOMAIN frame |->
        [frame[i] EXCEPT !.vcType =
            IF /\ frame[i].vcAgentID \in DOMAIN mapping
               /\ mapping[frame[i].vcAgentID] /= NoLabel
            THEN mapping[frame[i].vcAgentID]
            ELSE <<"Enterprise">>]]

\* app.fetch_data / app.fetch_od_data: a failed query is absorbed and an
\* empty frame returned
fetch_data(answer) == IF answer.failed THEN <<>> ELSE answer.rows

\* app.fetch_od_data adds PartType to every row
app_fetch_od_data(answer) ==
    IF answer.failed THEN <<>>
    ELSE [i \in DOMAIN answer.rows |->
             [Aggregator |-> answer.rows[i].Aggregator,
              ContentType |-> answer.rows[i].ContentType,
              Sent |-> answer.rows[i].Sent,
              PartType |-> PartTypeOf(answer.rows[i].ContentType)]]

\* for period, (start, end) in dates.items()
MainPeriods == <<"ftd", "mtd", "lmtd">>

Title(name) == [what |-> "title", name |-> name, rows |-> <<>>]
Table(name, rows) == [what |-> "table", name |-> name, rows |-> rows]

\* lines 557-567 with the except clause of lines 569-571: what is displayed
\* and which exception, if any, is reported
ShowSummaries(r, t) ==
    LET rcs == create_rcs_pivot(r.rcs_dfs, t)
        od  == app_create_od_pivot(r.od_dfs, t)
        s1  == <<Title("RCS Traffic Summary")>>
    IN  IF DOMAIN r.rcs_dfs /= {} /\ rcs.exc /= "None"
        THEN [shown |-> s1, error |-> rcs.exc]
        ELSE LET s2 == (IF DOMAIN r.rcs_dfs /= {}
                        THEN Append(s1, Table("RCS Traffic Summary", rcs.rows))
                        ELSE s1)
                       \o <<Title("OD Traffic Summary")>>
             IN  IF DOMAIN r.od_dfs /= {} /\ od.exc /= "None"
                 THEN [shown |-> s2, error |-> od.exc]
                 ELSE [shown |-> IF DOMAIN r.od_dfs /= {}
                                 THEN Append(s2, Table("OD Traffic Summary",
                                                       od.rows))
                                 ELSE s2,
                       error |-> "None"]

\* what the record source and mapping.csv can hold
AgentIDs == {"a1", "a2"}
Mappings == {("a1" :> <<"OD">>), ("a1" :> <<"CPL">>) @@ ("a2" :> NoLabel)}
DbTypes == {NoLabel}
MainCounters == {1}

RcsRows ==
    [vcORGName : SeqRange(OrgNames), vcAgentID : AgentIDs, vcType : DbTypes,
     iTotalSentSuccess : MainCounters]

OdRows ==
    [Aggregator : SeqRange(AggregatorNames), ContentType : ContentTypes,
     Sent : {1}]

MaxMainRows == 4
MaxFailures == 1

\* the 11th of a 30-day month, and a day get_date_ranges raises on
MainDates == {Date(2023, 4, 11), Date(2023, 3, 31)}

FramesUpTo(U, k) == UNION {[1..n -> U] : n \in 0..k}

\* the answers of client.query: it raises, or delivers rows
Answers(U, rowsLeft, failuresLeft) ==
    {[failed |-> FALSE, rows |-> f] : f \in FramesUpTo(U, rowsLeft)}
    \cup (IF failuresLeft > 0 THEN {[failed |-> TRUE, rows |-> <<>>]} ELSE {})

InitMain ==
    /\ pc = "main"
    /\ today \in MainDates
    /\ dates = [exc |-> "None", val |-> NoValue]
    /\ dfs = NoDfs
    /\ work = EmptyWork
    /\ result = NoTable
    /\ \E m \in Mappings : run = [NoRun EXCEPT !.mapping = m, !.i = 1]
    /\ mail = NoMail

\* lines 536-543: load_mapping and get_date_ranges; an exception goes to the
\* except clause
MainStart ==
    /\ pc = "main"
    /\ dates' = get_date_ranges(today)
    /\ IF dates'.exc /= "None"
       THEN pc' = "main_done" /\ run' = [run EXCEPT !.error = dates'.exc]
       ELSE pc' = "fetch" /\ run' = run
    /\ UNCHANGED <<mail, today, dfs, work, result>>

\* lines 545-555: one round of the loop over the periods
MainFetch ==
    /\ pc = "fetch"
    /\ LET period == MainPeriods[run.i]
       IN  \E ra \in Answers(RcsRows, MaxMainRows - run.rows,
                             MaxFailures - Cardinality(run.failed)) :
           \E oa \in Answers(OdRows, MaxMainRows - run.rows - Len(ra.rows),
                             MaxFailures - Cardinality(run.failed)
                                 - (IF ra.failed THEN 1 ELSE 0)) :
              LET rcs_df == fetch_data(ra)
                  od_df  == app_fetch_od_data(oa)
              IN  run' = [run EXCEPT
                      !.rcs_dfs = IF rcs_df /= <<>>
                                  THEN (period :> apply_mapping(rcs_df,
                                                                run.mapping)) @@ @
                                  ELSE @,
                      !.od_dfs = IF od_df /= <<>> THEN (period :> od_df) @@ @
                                 ELSE @,
                      !.failed = @ \cup (IF ra.failed THEN {<<"rcs", period>>}
                                         ELSE {})
                                   \cup (IF oa.failed THEN {<<"od", period>>}
                                         ELSE {}),
                      !.rows = @ + Len(ra.rows) + Len(oa.rows),
                      !.i = @ + 1]
    /\ pc' = IF run.i = Len(MainPeriods) THEN "show" ELSE "fetch"
    /\ UNCHANGED <<mail, today, dates, dfs, work, result>>

\* lines 557-571
MainShow ==
    /\ pc = "show"
    /\ LET out == ShowSummaries(run, today)
       IN  run' = [run EXCEPT !.shown = out.shown, !.error = out.error]
    /\ pc' = "main_done"
    /\ UNCHANGED <<mail, today, dates, dfs, work, result>>

NextMain ==
    \/ MainStart
    \/ MainFetch
    \/ MainShow

SpecMain == InitMain /\ [][NextMain]_vars

(***************************************************************************)
(* Properties of the dashboard run (checked under SpecMain).               *)
(***************************************************************************)
MainDone == pc = "main_done" /\ dates.exc = "None"

FramesOf(source) == IF source = "rcs" THEN run.rcs_dfs ELSE run.od_dfs
SummaryName(source) ==
    IF source = "rcs" THEN "RCS Traffic Summary" ELSE "OD Traffic Summary"

ShownTables(name) ==
    SelectSeq(run.shown, LAMBDA x : x.what = "table" /\ x.name = name)

PeriodCellOf(r, period) ==
    IF period = "ftd" THEN r.FTD ELSE IF period = "mtd" THEN r.MTD ELSE r.LMTD

\* the query of period f[2] of source f[1] failed and the source's other
\* periods delivered records
OnlyFailure(f) ==
    \A p \in SeqRange(MainPeriods) :
        p /= f[2] => p \in DOMAIN FramesOf(f[1])

\* C9: when the query of one period fails, fetch_data / fetch_od_data return
\* an empty result, and the run still displays the summary table of that
\* source, with the failed period's column filled with zeros.
C9_FailedQueryGivesZeroColumn ==
    MainDone =>
        \A f \in run.failed :
            /\ f[2] \notin DOMAIN FramesOf(f[1])
            /\ OnlyFailure(f) =>
                  /\ run.error = "None"
                  /\ ShownTables(SummaryName(f[1])) /= <<>>
                  /\ \A i \in DOMAIN ShownTables(SummaryName(f[1])) :
                        \A j \in DOMAIN ShownTables(SummaryName(f[1]))[i].rows :
                            PeriodCellOf(
                                ShownTables(SummaryName(f[1]))[i].rows[j],
                                f[2]) = Q(0, 1)

KeyOfRcs(rec) == <<rec.vcORGName, rec.vcType>>
KeyOfOd(rec) == <<rec.Aggregator, <<rec.ContentType>> >>

HasRecords(source, period, key) ==
    /\ period \in DOMAIN FramesOf(source)
    /\ \E rec \in SeqRange(FramesOf(source)[period]) :
          IF source = "rcs" THEN KeyOfRcs(rec) = key ELSE KeyOfOd(rec) = key

\* C10: in the tables of app.create_rcs_pivot and app.create_od_pivot, the
\* cell of a (group, sub-group) key in a period that has no records for the
\* key is 0, not missing.
C10_NoRecordsGivesZeroCell ==
    MainDone =>
        \A source \in {"rcs", "od"} :
            \A i \in DOMAIN ShownTables(SummaryName(source)) :
                LET rows == ShownTables(SummaryName(source))[i].rows
                IN  \A j \in DOMAIN rows :
                        rows[j].kind = "data" =>
                            \A period \in SeqRange(MainPeriods) :
                                ~HasRecords(source, period, rows[j].sub) =>
                                    PeriodCellOf(rows[j], period) = Q(0, 1)

(***************************************************************************)
(* The period resolver run on every day of a non-leap and a leap year.     *)
(***************************************************************************)
Years == {2023, 2024}

RunDates ==
    {Date(y, m, d) : y \in Years, m \in 1..12, d \in 1..31} \cap
    {dt \in [year : Years, month : 1..12, day : 1..31] :
        dt.day <= monthrange(dt.year, dt.month)}


InitDates ==
    /\ pc = "resolve"
    /\ today \in RunDates
    /\ dates = [exc |-> "None", val |-> NoValue]
    /\ dfs = NoDfs
    /\ work = EmptyWork
    /\ result = NoTable
    /\ run = NoRun
    /\ mail = NoMail

GetDateRanges ==
    /\ pc = "resolve"
    /\ dates' = get_date_ranges(today)
    /\ pc' = "resolved"
    /\ UNCHANGED <<mail, today, dfs, work, result, run>>

NextDates == GetDateRanges

SpecDates == InitDates /\ [][NextDates]_vars

(***************************************************************************)
(* C3                                                                      *)
(***************************************************************************)
PrevMonthOf(dt) ==
    IF dt.month = 1 THEN [year |-> dt.year - 1, month |-> 12]
    ELSE [year |-> dt.year, month |-> dt.month - 1]

Min(a, b) == IF a <= b THEN a ELSE b

ExpectedLmtd(t) ==
    LET pm == PrevMonthOf(t)
        yd == MinusOneDay(t).day
    IN  <<format_date(Date(pm.year, pm.month, 1)),
          format_date(Date(pm.year, pm.month,
                           Min(yd, monthrange(pm.year, pm.month))))>>

\* C3: for every reference date get_date_ranges returns without raising and
\* its LMTD range is [first day of the previous month, day
\* min(day_of(reference date - 1), days in the previous month) of it].
C3_LmtdClamped ==
    pc = "resolved" =>
        /\ dates.exc = "None"
        /\ dates.val.lmtd = ExpectedLmtd(today)

(***************************************************************************)
(* app.create_traffic_pivot: the text of create_rcs_pivot over millions,   *)
(* with the historical columns 'Prev' and 'prev_prev' in column_order.     *)
(***************************************************************************)
\* groupby(['vcORGName', 'vcType'])['iTotalSentSuccess'].sum() / 1_000_000
MillionColumns(d) ==
    [p \in DOMAIN d |->
        [i \in DOMAIN d[p] |->
            [org |-> d[p][i].vcORGName, typ |-> d[p][i].vcType,
             val |-> Q(d[p][i].iTotalSentSuccess, Scale)]]]

\* the columns of pivot_df before the reorder: a column per period.upper(),
\* then Growth and Proj
RatioColumns(d) == UpperKeys(d) \cup {"Growth", "Proj"}

\* column_order = ['FTD', 'MTD', 'LMTD', 'Growth', 'Proj', 'Prev', 'prev_prev']
TrafficColumnOrder ==
    <<"FTD", "MTD", "LMTD", "Growth", "Proj", "Prev", "prev_prev">>

\* pivot_df['MTD'] / pivot_df['LMTD'] and pivot_df[column_order] raise
\* KeyError for a column the frame does not have
app_create_traffic_pivot(d, t) ==
    IF ~({"MTD", "LMTD"} \subseteq UpperKeys(d))
    THEN [exc |-> "KeyError", rows |-> <<>>, cols |-> <<>>]
    ELSE IF ~(SeqRange(TrafficColumnOrder) \subseteq RatioColumns(d))
    THEN [exc |-> "KeyError", rows |-> <<>>, cols |-> <<>>]
    ELSE LET data == RatioDataRows(MillionColumns(d), t, OrgNames, MappedTypes)
         IN  [exc |-> "None", rows |-> data \o RatioTotals(data),
              cols |-> [i \in DOMAIN TrafficColumnOrder |->
                           <<TrafficColumnOrder[i]>>]]

(***************************************************************************)
(* A caller builds the mapping period -> frame and calls one of the        *)
(* ratio-style builders of app.py.                                         *)
(***************************************************************************)
MaxRatioRows == 3

RatioKeys == {"ftd", "mtd", "lmtd"}
HistoryKeys == {"prev", "prev_prev"}
RatioKeySets == (SUBSET RatioKeys) \cup {RatioKeys \cup HistoryKeys}

\* the counters of a record: a group can have sent nothing in a period
RatioCounters == {0, 1, 2}

\* records after the category mapper: vcType is one of its categories
RatioRecords ==
    [vcORGName : SeqRange(OrgNames), vcType : {<<"Enterprise">>, <<"OD">>},
     iTotalSentSuccess : RatioCounters]

\* app.fetch_od_data's records: Sent is the raw counter
RatioOdRecords ==
    [Aggregator : SeqRange(AggregatorNames), ContentType : ContentTypes,
     Sent : RatioCounters]

RatioBuilders == {"rcs", "app_od", "app_traffic"}

InitRatio ==
    /\ pc \in RatioBuilders
    /\ \E keys \in RatioKeySets : dfs = [k \in keys |-> <<>>]
    /\ today = NotRead
    /\ dates = [exc |-> "None", val |-> NoValue]
    /\ work = EmptyWork
    /\ result = NoTable
    /\ run = NoRun
    /\ mail = NoMail

\* a row of app.fetch_data's frame for period p, after apply_mapping
FetchRatioRow ==
    /\ pc \in {"rcs", "app_traffic"}
    /\ TotalRows(dfs) < MaxRatioRows
    /\ \E p \in DOMAIN dfs, r \in RatioRecords :
          dfs' = [dfs EXCEPT ![p] = Append(@, r)]
    /\ UNCHANGED <<mail, pc, today, dates, work, result, run>>

\* a row of app.fetch_od_data's frame for period p
FetchRatioOdRow ==
    /\ pc = "app_od"
    /\ TotalRows(dfs) < MaxRatioRows
    /\ \E p \in DOMAIN dfs, r \in RatioOdRecords :
          dfs' = [dfs EXCEPT ![p] =
                     @ \o app_fetch_od_data([failed |-> FALSE, rows |-> <<r>>])]
    /\ UNCHANGED <<mail, pc, today, dates, work, result, run>>

CreateRcsPivot ==
    /\ pc = "rcs"
    /\ \E t \in PivotDates :
          /\ today' = t
          /\ result' = create_rcs_pivot(dfs, t)
    /\ pc' = "rcs_done"
    /\ UNCHANGED <<mail, dates, dfs, work, run>>

AppCreateOdPivot ==
    /\ pc = "app_od"
    /\ \E t \in PivotDates :
          /\ today' = t
          /\ result' = app_create_od_pivot(dfs, t)
    /\ pc' = "app_od_done"
    /\ UNCHANGED <<mail, dates, dfs, work, run>>

AppCreateTrafficPivot ==
    /\ pc = "app_traffic"
    /\ \E t \in PivotDates :
          /\ today' = t
          /\ result' = app_create_traffic_pivot(dfs, t)
    /\ pc' = "app_traffic_done"
    /\ UNCHANGED <<mail, dates, dfs, work, run>>

NextRatio ==
    \/ FetchRatioRow
    \/ FetchRatioOdRow
    \/ CreateRcsPivot
    \/ AppCreateOdPivot
    \/ AppCreateTrafficPivot

SpecRatio == InitRatio /\ [][NextRatio]_vars

(***************************************************************************)
(* Properties of the ratio-style builders (checked under SpecRatio).       *)
(***************************************************************************)
RatioDone == pc \in {"rcs_done", "app_od_done", "app_traffic_done"}
RatioReturned == RatioDone /\ result.exc = "None"

\* every period of the mapping has records
AllPeriodsFilled == \A p \in DOMAIN dfs : dfs[p] /= <<>>

\* the row has an MTD value and a non-zero LMTD value, so that its growth
\* percentage is a finite number
HasRatio(r) == ~r.MTD.nan /\ ~r.LMTD.nan /\ r.LMTD.n /= 0

\* C11: in the tables of the ratio-style builders, the Growth of every row,
\* the 'Total - <type>' rows and the 'Grand Total' row included, is
\* (MTD - LMTD) / LMTD * 100 of that row's own MTD and LMTD (to the two
\* decimals the builders keep).
C11_GrowthOfEveryRow ==
    (RatioReturned /\ AllPeriodsFilled) =>
        \A i \in DOMAIN result.rows :
            HasRatio(result.rows[i]) =>
                result.rows[i].Growth =
                    GrowthPct(result.rows[i].MTD, result.rows[i].LMTD)


(***************************************************************************)
(* mailer.send_summary_email: build the message, attach the workbook, and  *)
(* hand the message to the SMTP server.  Every step can raise; the whole   *)
(* body is inside try / except Exception.                                  *)
(***************************************************************************)
Recipients == {<<>>, <<"a@x">>, <<"b@x">>, <<"a@x", "b@x">>}

\* lines 110-112: except Exception: print, return False
except_handler_as_success(m, step) == [m EXCEPT !.failed = step, !.ret = "True"]
except_handler(m, step) == [m EXCEPT !.failed = step, !.ret = "False"]

InitMail ==
    /\ pc = "mail_body"
    /\ today = NotRead
    /\ dates = [exc |-> "None", val |-> NoValue]
    /\ dfs = NoDfs
    /\ work = EmptyWork
    /\ result = NoTable
    /\ run = NoRun
    /\ \E rc \in Recipients, ex \in BOOLEAN :
          mail = [NoMail EXCEPT !.recipients = rc, !.exists = ex]

\* one step of the try block: it completes, or it raises and the except
\* clause returns
MailStep(from, to, done) ==
    /\ pc = from
    /\ \E ok \in BOOLEAN :
          IF ok
          THEN pc' = to /\ mail' = done
          ELSE pc' = "mail_done" /\ mail' = except_handler(mail, from)
    /\ UNCHANGED <<today, dates, dfs, work, result, run>>

\* lines 55-87: the headers, the two rendered tables, set_content
MailBody == MailStep("mail_body", "mail_attach", mail)

\* lines 90-97: the workbook is attached when the file exists
MailAttach ==
    IF mail.exists
    THEN MailStep("mail_attach", "mail_connect", [mail EXCEPT !.attached = TRUE])
    ELSE /\ pc = "mail_attach"
         /\ pc' = "mail_connect"
         /\ UNCHANGED <<today, dates, dfs, work, result, run, mail>>

\* lines 100-102: smtplib.SMTP(...), connect, ehlo
MailConnect ==
    MailStep("mail_connect", "mail_starttls", [mail EXCEPT !.connected = TRUE])

\* line 103
MailStartTls ==
    MailStep("mail_starttls", "mail_login", [mail EXCEPT !.tls = TRUE])

\* line 104
MailLogin == MailStep("mail_login", "mail_send", [mail EXCEPT !.auth = TRUE])

\* line 105
MailSend == MailStep("mail_send", "mail_quit", [mail EXCEPT !.sent = TRUE])

\* the end of the with block: SMTP.__exit__ sends QUIT and raises on an
\* unexpected reply
MailQuit ==
    MailStep("mail_quit", "mail_return", [mail EXCEPT !.connected = FALSE])

\* lines 107-108
MailReturn ==
    /\ pc = "mail_return"
    /\ pc' = "mail_done"
    /\ mail' = [mail EXCEPT !.ret = "True"]
    /\ UNCHANGED <<today, dates, dfs, work, result, run>>

NextMail ==
    \/ MailBody
    \/ MailAttach
    \/ MailConnect
    \/ MailStartTls
    \/ MailLogin
    \/ MailSend
    \/ MailQuit
    \/ MailReturn

SpecMail == InitMail /\ [][NextMail]_vars

\* C12: send_summary_email always returns a Boolean to its caller: False
\* when any step raised (body, attachment, connection, STARTTLS, login,
\* send), and True only after send_message completed on a session that went
\* through STARTTLS and login.
C12_SendReturnsBoolean ==
    /\ mail.ret = "none" <=> pc /= "mail_done"
    /\ pc = "mail_done" =>
          /\ mail.ret \in {"True", "False"}
          /\ mail.failed /= "none" => mail.ret = "False"
          /\ mail.ret = "True" => mail.sent /\ mail.tls /\ mail.auth

\* the login was refused after STARTTLS, and the call returned False
C12_Witness ==
    /\ pc = "mail_done"
    /\ mail.failed = "mail_login"
    /\ mail.tls /\ ~mail.auth /\ ~mail.sent
    /\ mail.ret = "False"


(***************************************************************************)
(* The category mapper: app.apply_mapping and app.apply_type_mapping map   *)
(* every record's vcAgentID; traffic.fetch_traffic_data maps the records   *)
(* whose vcType is missing or ''.                                          *)
(***************************************************************************)
\* the empty string ''
EmptyString == <<"">>

\* vcType is None / NaN or ''
IsAbsent(label) == label \in {NoLabel, EmptyString}

\* Series.map(mapping) then fillna('Enterprise') for one agent id
MappedOrDefault(id, mapping) ==
    IF id \in DOMAIN mapping /\ mapping[id] /= NoLabel
    THEN mapping[id]
    ELSE <<"Enterprise">>

\* app.apply_type_mapping: the text of apply_mapping
apply_type_mapping(frame, mapping) ==
    [i \in DOMAIN frame |->
        [frame[i] EXCEPT !.vcType = MappedOrDefault(frame[i].vcAgentID, mapping)]]

\* the back-fill with the final fillna('Enterprise') left out
update_vcType_without_fillna(frame, mapping) ==
    [i \in DOMAIN frame |->
        IF IsAbsent(frame[i].vcType)
        THEN [frame[i] EXCEPT !.vcType =
                 IF frame[i].vcAgentID \in DOMAIN mapping
                 THEN mapping[frame[i].vcAgentID]
                 ELSE NoLabel]
        ELSE frame[i]]

\* traffic.fetch_traffic_data, lines 45-49: mask = isna | == '', the masked
\* records get vcAgentID.map(mappings), then fillna('Enterprise')
update_vcType(frame, mapping) ==
    [i \in DOMAIN frame |->
        IF IsAbsent(frame[i].vcType)
        THEN [frame[i] EXCEPT !.vcType =
                 MappedOrDefault(frame[i].vcAgentID, mapping)]
        ELSE frame[i]]

MaxMapperRows == 2

\* what the query delivers: the category may be missing, '' or a label
QueryTypes == {NoLabel, EmptyString, <<"OD">>, <<"Promo">>}

QueryRows ==
    [vcORGName : {<<"A">>}, vcAgentID : AgentIDs, vcType : QueryTypes,
     iTotalSentSuccess : MainCounters]

Mappers == {"apply_mapping", "apply_type_mapping", "update_vcType"}

InitMapper ==
    /\ pc \in Mappers
    /\ today = NotRead
    /\ dates = [exc |-> "None", val |-> NoValue]
    /\ dfs = [raw |-> <<>>]
    /\ work = EmptyWork
    /\ result = NoTable
    /\ \E m \in Mappings : run = [NoRun EXCEPT !.mapping = m]
    /\ mail = NoMail

\* a row of result.result_rows
QueryRow ==
    /\ pc \in Mappers
    /\ Len(dfs.raw) < MaxMapperRows
    /\ \E r \in QueryRows : dfs' = [dfs EXCEPT !.raw = Append(@, r)]
    /\ UNCHANGED <<pc, today, dates, work, result, run, mail>>

ApplyMapping ==
    /\ pc = "apply_mapping"
    /\ dfs' = [raw |-> dfs.raw, mapped |-> apply_mapping(dfs.raw, run.mapping)]
    /\ pc' = "apply_mapping_done"
    /\ UNCHANGED <<today, dates, work, result, run, mail>>

ApplyTypeMapping ==
    /\ pc = "apply_type_mapping"
    /\ dfs' = [raw |-> dfs.raw,
               mapped |-> apply_type_mapping(dfs.raw, run.mapping)]
    /\ pc' = "apply_type_mapping_done"
    /\ UNCHANGED <<today, dates, work, result, run, mail>>

UpdateVcType ==
    /\ pc = "update_vcType"
    /\ dfs' = [raw |-> dfs.raw, mapped |-> update_vcType(dfs.raw, run.mapping)]
    /\ pc' = "update_vcType_done"
    /\ UNCHANGED <<today, dates, work, result, run, mail>>

NextMapper ==
    \/ QueryRow
    \/ ApplyMapping
    \/ ApplyTypeMapping
    \/ UpdateVcType

SpecMapper == InitMapper /\ [][NextMapper]_vars

(***************************************************************************)
(* Properties of the category mapper (checked under SpecMapper).           *)
(***************************************************************************)
MapperDone ==
    pc \in {"apply_mapping_done", "apply_type_mapping_done", "update_vcType_done"}

\* the agent id is not in the mapping table, or its mapped value is empty
Unmapped(rec) ==
    \/ rec.vcAgentID \notin DOMAIN run.mapping
    \/ run.mapping[rec.vcAgentID] = NoLabel

\* C13 as stated: after the mapper every record has a non-empty category,
\* and every record whose agent id is unmapped has category "Enterprise".
C13_UnmappedIsEnterprise ==
    MapperDone =>
        \A i \in DOMAIN dfs.mapped :
            /\ ~IsAbsent(dfs.mapped[i].vcType)
            /\ Unmapped(dfs.mapped[i]) =>
                  dfs.mapped[i].vcType = <<"Enterprise">>

\* C13 amended: after the mapper every record has a non-empty category, and
\* every record whose agent id is unmapped has category "Enterprise", except
\* that fetch_traffic_data leaves a record that already carried a category
\* with that category.
C13_UnmappedIsEnterpriseUnlessKept ==
    MapperDone =>
        \A i \in DOMAIN dfs.mapped :
            /\ ~IsAbsent(dfs.mapped[i].vcType)
            /\ Unmapped(dfs.mapped[i]) =>
                  \/ dfs.mapped[i].vcType = <<"Enterprise">>
                  \/ /\ pc = "update_vcType_done"
                     /\ ~IsAbsent(dfs.raw[i].vcType)
                     /\ dfs.mapped[i].vcType = dfs.raw[i].vcType

\* fetch_traffic_data back-filled "Enterprise" into a record without a
\* category whose agent id has an empty mapped value
C13_Witness ==
    /\ MapperDone
    /\ pc = "update_vcType_done"
    /\ \E i \in DOMAIN dfs.mapped :
          /\ IsAbsent(dfs.raw[i].vcType)
          /\ dfs.raw[i].vcAgentID \in DOMAIN run.mapping
          /\ run.mapping[dfs.raw[i].vcAgentID] = NoLabel
          /\ dfs.mapped[i].vcType = <<"Enterprise">>

\* C20: the mapper only back-fills: a record that already carries a
\* non-empty category keeps it, and no field other than the category
\* changes.
C20_MapperOnlyBackfills ==
    MapperDone =>
        /\ Len(dfs.mapped) = Len(dfs.raw)
        /\ \A i \in DOMAIN dfs.raw :
              /\ ~IsAbsent(dfs.raw[i].vcType) =>
                    dfs.mapped[i].vcType = dfs.raw[i].vcType
              /\ [dfs.mapped[i] EXCEPT !.vcType = NoLabel]
                     = [dfs.raw[i] EXCEPT !.vcType = NoLabel]


(***************************************************************************)
(* Further properties of the period resolver (checked under SpecDates).    *)
(***************************************************************************)
Resolved == pc = "resolved"

\* C14: for every reference date get_date_ranges returns FTD = [reference
\* date - 1, reference date - 1] and MTD = [first day of the reference
\* date's month, reference date - 1].
C14_FtdAndMtdRanges ==
    Resolved =>
        /\ dates.exc = "None"
        /\ dates.val.ftd = <<format_date(MinusOneDay(today)),
                             format_date(MinusOneDay(today))>>
        /\ dates.val.mtd = <<format_date(Date(today.year, today.month, 1)),
                             format_date(MinusOneDay(today))>>

\* C15: when the reference date is the 1st of a month, the FTD range and
\* the MTD range are both the single last day of the prior month.
C15_FirstOfMonthSingleDay ==
    (Resolved /\ today.day = 1) =>
        /\ dates.exc = "None"
        /\ dates.val.ftd = <<format_date(MinusOneDay(today)),
                             format_date(MinusOneDay(today))>>
        /\ dates.val.mtd = <<format_date(MinusOneDay(today)),
                             format_date(MinusOneDay(today))>>


(***************************************************************************)
(* Rounding in the count-style builders (checked under SpecPivot).         *)
(***************************************************************************)
\* C16: in the rounded table traffic.create_traffic_pivot and
\* od.create_od_pivot return, every 'Total <type>' row equals the sum of the
\* final values of its type rows in FTD, MTD, LMTD, Growth and Projection.
C16_RoundedTotalsAddUp ==
    PivotReturned =>
        \A i \in DOMAIN result.rows :
            result.rows[i].kind = "total" =>
                \A col \in {"FTD", "MTD", "LMTD", "Growth", "Projection"} :
                    result.rows[i][col].n =
                        ColTotal(TypeRows(result.rows,
                                          Tail(result.rows[i].Index)), col)


(***************************************************************************)
(* Order of rounding in the ratio-style builders (checked under SpecRatio).*)
(***************************************************************************)
\* the projection cell c is the unrounded projection of MTD value m, or that
\* projection rounded to two decimals
IsProjectionOf(c, m, t) ==
    \/ c = ProjOf(m, t)
    \/ /\ ~c.nan /\ ~m.nan
       /\ c.n * m.d * t.day = m.n * monthrange(t.year, t.month) * c.d

\* C17: rounding comes last: the 'Total - <type>' rows and the 'Grand Total'
\* row are sums of unrounded row values, so their Proj is the projection of
\* the summed MTD (rounded, if at all, after the sum).
C17_RoundingIsLast ==
    RatioReturned =>
        \A i \in DOMAIN result.rows :
            result.rows[i].kind \in {"total", "grand"} =>
                IsProjectionOf(result.rows[i].Proj, result.rows[i].MTD, today)


(***************************************************************************)
(* app.analyze_hierarchical_traffic: the five period frames, in millions,  *)
(* as one table with a row per aggregator and per (aggregator, type).      *)
(***************************************************************************)
\* .round(2) of a cell
Round2(a) ==
    IF a.nan \/ a.inf /= 0 THEN a
    ELSE IF a.d % 100 = 0 THEN Q(RoundHalfEven(a.n, a.d \div 100), 100)
    ELSE Q(RoundHalfEven(a.n * 100, a.d), 100)

\* the aggregator names of the records, in sorted order; the hyphen of
\* 'T-Mobile' is a token of its own
HierOrgNames == << <<"A">>, <<"T", "-", "Mobile">> >>

\* the period columns of the table, in the order of the dict periods
HierPeriods == <<"FTD", "MTD", "LMTD", "Jan25", "Dec24">>

\* column_order = ['FTD', 'MTD', 'LMTD', 'Jan25', 'Dec24', 'Growth', 'Proj']
HierColumnOrder == <<"FTD", "MTD", "LMTD", "Jan25", "Dec24", "Growth", "Proj">>

\* process_period_data: the traffic of the records of frame the mask
\* selects, in millions
HierTraffic(frame, org, typ, anyType) ==
    SumCells([i \in DOMAIN frame |->
                 IF /\ frame[i].vcORGName = org
                    /\ (anyType \/ frame[i].vcType = typ)
                 THEN Q(frame[i].iTotalSentSuccess, Scale)
                 ELSE Q(0, Scale)], Scale)

\* the labels of the Series process_period_data returns for one frame: the
\* aggregator, and "<agg> - <type>" for every type with traffic
HasOrgLabel(frame, org) == \E i \in DOMAIN frame : frame[i].vcORGName = org
HasTypeLabel(frame, org, typ) ==
    /\ HasOrgLabel(frame, org)
    /\ \E i \in DOMAIN frame : frame[i].vcType = typ
    /\ HierTraffic(frame, org, typ, FALSE).n > 0

HierRow(label, kind, org, typ, c) ==
    [Index |-> label, kind |-> kind, owner |-> org, typ |-> typ,
     FTD |-> c.FTD, MTD |-> c.MTD, LMTD |-> c.LMTD,
     Jan25 |-> c.Jan25, Dec24 |-> c.Dec24,
     Growth |-> c.Growth, Proj |-> c.Proj]

\* summary = pd.DataFrame(summary_data).fillna(0), then Growth and Proj:
\* the cells of the row of one label
HierCells(f, org, typ, anyType, t) ==
    LET cell(p) ==
            IF IF anyType THEN HasOrgLabel(f[p], org)
               ELSE HasTypeLabel(f[p], org, typ)
            THEN HierTraffic(f[p], org, typ, anyType)
            ELSE Q(0, Scale)
    IN  [FTD |-> cell("FTD"), MTD |-> cell("MTD"), LMTD |-> cell("LMTD"),
         Jan25 |-> cell("Jan25"), Dec24 |-> cell("Dec24"),
         Growth |-> SubCells(cell("MTD"), cell("LMTD")),
         Proj |-> ScaleCell(cell("MTD"), monthrange(t.year, t.month), t.day)]

\* rows.sum() column by column
HierSums(rows, t) ==
    [FTD    |-> SumCells(Column(rows, "FTD"), Scale),
     MTD    |-> SumCells(Column(rows, "MTD"), Scale),
     LMTD   |-> SumCells(Column(rows, "LMTD"), Scale),
     Jan25  |-> SumCells(Column(rows, "Jan25"), Scale),
     Dec24  |-> SumCells(Column(rows, "Dec24"), Scale),
     Growth |-> SumCells(Column(rows, "Growth"), Scale),
     Proj   |-> SumCells(Column(rows, "Proj"), Scale * t.day)]

\* idx.endswith(f"- {vtype}")
EndsWithType(label, vtype) ==
    /\ Len(label) >= Len(vtype) + 1
    /\ SubSeq(label, Len(label) - Len(vtype), Len(label)) = <<"-">> \o vtype

\* index.str.contains('-')
ContainsDash(label) == \E i \in DOMAIN label : label[i] = "-"

\* the data rows: the union of the labels of the five Series
HierDataRows(f, t, OrgsSorted, TypesSorted) ==
    LET block(org) ==
            (IF \E p \in DOMAIN f : HasOrgLabel(f[p], org)
             THEN <<HierRow(org, "org", org, <<>>,
                            HierCells(f, org, <<>>, TRUE, t))>>
             ELSE <<>>)
            \o Concat([j \in DOMAIN TypesSorted |->
                 IF \E p \in DOMAIN f : HasTypeLabel(f[p], org, TypesSorted[j])
                 THEN <<HierRow(org \o <<"-">> \o TypesSorted[j], "type", org,
                                TypesSorted[j],
                                HierCells(f, org, TypesSorted[j], FALSE, t))>>
                 ELSE <<>>])
    IN  Concat([i \in DOMAIN OrgsSorted |-> block(OrgsSorted[i])])

\* lines 205-215: a 'Total - <type>' row per type that has rows
RECURSIVE HierTypeTotals(_, _, _)
HierTypeTotals(rows, types, t) ==
    IF types = <<>> THEN rows
    ELSE LET type_rows ==
                 SelectSeq(rows, LAMBDA r : EndsWithType(r.Index, Head(types)))
         IN  HierTypeTotals(
                 IF type_rows /= <<>>
                 THEN Append(rows,
                             HierRow(<<"Total", "-">> \o Head(types), "total",
                                     <<>>, Head(types), HierSums(type_rows, t)))
                 ELSE rows,
                 Tail(types), t)

\* lines 217-223: the rows whose label has no '-'
HierGrandTotal(rows, t) ==
    Append(rows,
           HierRow(<<"Grand", "Total">>, "grand", <<>>, <<>>,
                   HierSums(SelectSeq(rows, LAMBDA r : ~ContainsDash(r.Index)),
                            t)))

HierRound(r) ==
    [r EXCEPT !.FTD = Round2(r.FTD), !.MTD = Round2(r.MTD),
              !.LMTD = Round2(r.LMTD), !.Jan25 = Round2(r.Jan25),
              !.Dec24 = Round2(r.Dec24), !.Growth = Round2(r.Growth),
              !.Proj = Round2(r.Proj)]

analyze_hierarchical_traffic(ftd_df, mtd_df, lmtd_df, dec_df, jan_df, t) ==
    LET f == [FTD |-> ftd_df, MTD |-> mtd_df, LMTD |-> lmtd_df,
              Jan25 |-> jan_df, Dec24 |-> dec_df]
        types == SelectSeq(MappedTypes,
                     LAMBDA ty : \E p \in DOMAIN f : \E i \in DOMAIN f[p] :
                                     f[p][i].vcType = ty)
        rows == HierGrandTotal(
                    HierTypeTotals(HierDataRows(f, t, HierOrgNames, MappedTypes),
                                   types, t), t)
    IN  [work |-> [rows |-> rows, cols |-> <<>>],
         ret  |-> [exc |-> "None",
                   rows |-> [i \in DOMAIN rows |-> HierRound(rows[i])],
                   cols |-> [i \in DOMAIN HierColumnOrder |->
                                <<HierColumnOrder[i]>>]]]


(***************************************************************************)
(* app.create_od_summary: the OD frames of the periods as one table with   *)
(* a 'Total' row and the part-type rows of 'Karix' and 'ValueFirst', and   *)
(* a 'Grand Total' row per part type.                                      *)
(***************************************************************************)
\* the aggregators of the query result, as a sorted index lists them
SummaryAggregators == << <<"Airtel">>, <<"Karix">>, <<"ValueFirst">> >>

\* the part types, as a sorted index lists them
PartLabels == << <<"Multipart">>, <<"Single", "Part">> >>

\* for agg in ['Karix', 'ValueFirst']
ListedAggregators == << <<"Karix">>, <<"ValueFirst">> >>

\* column_order = ['ftd', 'mtd', 'lmtd', 'Growth', 'Proj', 'prev', 'prev_prev']
OdSummaryColumnOrder ==
    <<"ftd", "mtd", "lmtd", "Growth", "Proj", "prev", "prev_prev">>

\* process_df: (aggregator, part type) is a key of the grouped Series
HasPart(frame, agg, part) ==
    \E i \in DOMAIN frame :
        frame[i].Aggregator = agg /\ frame[i].PartType = part

\* process_df: groupby(['Aggregator', 'PartType'])['Sent'].sum().round(0)
PartSent(frame, agg, part) ==
    RoundCell(SumCells([i \in DOMAIN frame |->
                           IF /\ frame[i].Aggregator = agg
                              /\ frame[i].PartType = part
                           THEN Q(frame[i].Sent, 1) ELSE Q(0, 1)], 1))

\* the index of summary: the keys of the grouped Series of any period
InSummary(d, agg, part) == \E p \in DOMAIN d : HasPart(d[p], agg, part)

OdSummaryRow(agg, part, kind, c) ==
    [Index |-> agg \o part, kind |-> kind, owner |-> agg, typ |-> part,
     ftd |-> c.ftd, mtd |-> c.mtd, lmtd |-> c.lmtd,
     Growth |-> c.Growth, Proj |-> c.Proj,
     prev |-> c.prev, prev_prev |-> c.prev_prev]

\* pd.DataFrame(summary_data).fillna(0), then Growth and Proj: the cells of
\* the row (agg, part) of summary
OdSummaryCells(d, agg, part, t) ==
    LET cell(p) == IF HasPart(d[p], agg, part)
                   THEN PartSent(d[p], agg, part) ELSE Q(0, 1)
    IN  [ftd |-> cell("ftd"), mtd |-> cell("mtd"), lmtd |-> cell("lmtd"),
         Growth |-> SubCells(cell("mtd"), cell("lmtd")),
         Proj |-> ScaleCell(cell("mtd"), monthrange(t.year, t.month), t.day),
         prev |-> cell("prev"), prev_prev |-> cell("prev_prev")]

\* rows.sum() column by column
OdSummarySums(rows, t) ==
    [ftd       |-> SumCells(Column(rows, "ftd"), 1),
     mtd       |-> SumCells(Column(rows, "mtd"), 1),
     lmtd      |-> SumCells(Column(rows, "lmtd"), 1),
     Growth    |-> SumCells(Column(rows, "Growth"), 1),
     Proj      |-> SumCells(Column(rows, "Proj"), t.day),
     prev      |-> SumCells(Column(rows, "prev"), 1),
     prev_prev |-> SumCells(Column(rows, "prev_prev"), 1)]

\* summary: one row per key of the index, sorted
OdSummaryIndex(d, t) ==
    Concat([i \in DOMAIN SummaryAggregators |->
        Concat([j \in DOMAIN PartLabels |->
            IF InSummary(d, SummaryAggregators[i], PartLabels[j])
            THEN <<OdSummaryRow(SummaryAggregators[i], PartLabels[j], "part",
                       OdSummaryCells(d, SummaryAggregators[i],
                                      PartLabels[j], t))>>
            ELSE <<>>])])

\* lines 279-289: the 'Total' row of a listed aggregator, then its
\* 'Single Part' and 'Multipart' rows
AggregatorBlock(summary, agg, t) ==
    LET agg_data == SelectSeq(summary, LAMBDA r : r.owner = agg)
    IN  IF agg_data = <<>> THEN <<>>
        ELSE <<OdSummaryRow(agg, <<"Total">>, "total",
                            OdSummarySums(agg_data, t))>>
             \o Concat([j \in DOMAIN PartTypes |->
                    SelectSeq(agg_data, LAMBDA r : r.typ = PartTypes[j])])

\* lines 292-295: summary.groupby(level=1).sum(), a row per part type
GrandTotals(summary, t) ==
    Concat([j \in DOMAIN PartTypes |->
        LET rows == SelectSeq(summary, LAMBDA r : r.typ = PartTypes[j])
        IN  IF rows = <<>> THEN <<>>
            ELSE <<OdSummaryRow(<<"Grand", "Total">>, PartTypes[j], "grand",
                                OdSummarySums(rows, t))>>])

OdSummaryRound(r) ==
    [r EXCEPT !.ftd = Round2(r.ftd), !.mtd = Round2(r.mtd),
              !.lmtd = Round2(r.lmtd), !.Growth = Round2(r.Growth),
              !.Proj = Round2(r.Proj), !.prev = Round2(r.prev),
              !.prev_prev = Round2(r.prev_prev)]

\* summary['mtd'] and summary[column_order] raise KeyError for a period
\* dfs does not have; with no row to return, result has no column
\* 'Aggregator' and set_index raises KeyError
create_od_summary(d, t) ==
    IF ~({"mtd", "lmtd"} \subseteq DOMAIN d)
    THEN [work |-> EmptyWork,
          ret |-> [exc |-> "KeyError", rows |-> <<>>, cols |-> <<>>]]
    ELSE IF ~(SeqRange(OdSummaryColumnOrder) \subseteq
                  (DOMAIN d \cup {"Growth", "Proj"}))
    THEN [work |-> EmptyWork,
          ret |-> [exc |-> "KeyError", rows |-> <<>>, cols |-> <<>>]]
    ELSE LET summary == OdSummaryIndex(d, t)
             final_rows ==
                 Concat([i \in DOMAIN ListedAggregators |->
                            AggregatorBlock(summary, ListedAggregators[i], t)])
                 \o GrandTotals(summary, t)
         IN  IF final_rows = <<>>
             THEN [work |-> EmptyWork,
                   ret |-> [exc |-> "KeyError", rows |-> <<>>, cols |-> <<>>]]
             ELSE [work |-> [rows |-> final_rows, cols |-> <<>>],
                   ret |-> [exc |-> "None",
                            rows |-> [i \in DOMAIN final_rows |->
                                         OdSummaryRound(final_rows[i])],
                            cols |-> [i \in DOMAIN OdSummaryColumnOrder |->
                                         <<OdSummaryColumnOrder[i]>>]]]


(***************************************************************************)
(* A caller fetches the period frames and builds one of the two summary    *)
(* tables of app.py.                                                       *)
(***************************************************************************)
MaxSummaryRows == 2

\* iTotalSentSuccess of a record: 0.004 and 2 million messages
HierCounters == {4000, 2000000}

\* app.fetch_data's records after the type mapping
HierRecords ==
    [vcORGName : SeqRange(HierOrgNames), vcType : {<<"Enterprise">>, <<"OD">>},
     iTotalSentSuccess : HierCounters]

\* the rows of the od_traffic query
SummaryOdRecords ==
    [Aggregator : SeqRange(SummaryAggregators), ContentType : ContentTypes,
     Sent : Counters]

SummaryBuilders == {"hier", "od_summary"}

InitSummary ==
    /\ pc \in SummaryBuilders
    /\ IF pc = "hier"
       THEN dfs = [p \in SeqRange(HierPeriods) |-> <<>>]
       ELSE \E keys \in RatioKeySets : dfs = [k \in keys |-> <<>>]
    /\ today = NotRead
    /\ dates = [exc |-> "None", val |-> NoValue]
    /\ work = EmptyWork
    /\ result = NoTable
    /\ run = NoRun
    /\ mail = NoMail

\* a row of app.fetch_data's frame for one of the five periods
FetchHierRow ==
    /\ pc = "hier"
    /\ TotalRows(dfs) < MaxSummaryRows
    /\ \E p \in DOMAIN dfs, r \in HierRecords :
          dfs' = [dfs EXCEPT ![p] = Append(@, r)]
    /\ UNCHANGED <<mail, pc, today, dates, work, result, run>>

\* a row of app.fetch_od_data's frame for period p
FetchSummaryOdRow ==
    /\ pc = "od_summary"
    /\ TotalRows(dfs) < MaxSummaryRows
    /\ \E p \in DOMAIN dfs, r \in SummaryOdRecords :
          dfs' = [dfs EXCEPT ![p] =
                     @ \o app_fetch_od_data([failed |-> FALSE, rows |-> <<r>>])]
    /\ UNCHANGED <<mail, pc, today, dates, work, result, run>>

\* the table of frames that hold at least one record
AnalyzeHierarchicalTraffic ==
    /\ pc = "hier"
    /\ TotalRows(dfs) > 0
    /\ \E t \in PivotDates :
          LET out == analyze_hierarchical_traffic(dfs.FTD, dfs.MTD, dfs.LMTD,
                                                  dfs.Dec24, dfs.Jan25, t)
          IN  /\ today' = t
              /\ work' = out.work
              /\ result' = out.ret
    /\ pc' = "hier_done"
    /\ UNCHANGED <<mail, dates, dfs, run>>

CreateOdSummary ==
    /\ pc = "od_summary"
    /\ \E t \in PivotDates :
          LET out == create_od_summary(dfs, t)
          IN  /\ today' = t
              /\ work' = out.work
              /\ result' = out.ret
    /\ pc' = "od_summary_done"
    /\ UNCHANGED <<mail, dates, dfs, run>>

NextSummary ==
    \/ FetchHierRow
    \/ FetchSummaryOdRow
    \/ AnalyzeHierarchicalTraffic
    \/ CreateOdSummary

SpecSummary == InitSummary /\ [][NextSummary]_vars

(***************************************************************************)
(* Properties of the summary tables (checked under SpecSummary).           *)
(***************************************************************************)
SummaryReturned ==
    pc \in {"hier_done", "od_summary_done"} /\ result.exc = "None"

\* the canonical order: FTD, MTD, LMTD, Growth, Projection, and only then
\* the historical months (a label counts whatever its case, and 'Proj' is
\* the projection)
CanonicalOrder(cols) ==
    /\ Len(cols) >= 5
    /\ <<Upper(cols[1][1]), Upper(cols[2][1]), Upper(cols[3][1])>> =
           <<"FTD", "MTD", "LMTD">>
    /\ cols[4] = <<"Growth">>
    /\ cols[5] \in {<<"Proj">>, <<"Projection">>}

\* C18: every cross-period summary table returns its columns in the
\* canonical order FTD, MTD, LMTD, Growth, Projection, historical months.
C18_CanonicalColumnOrder == SummaryReturned => CanonicalOrder(result.cols)


(***************************************************************************)
(* app.fetch_all_period_data, lines 320-328: the ranges of get_date_ranges *)
(* and the ranges of the two months before the current one.  datetime.now()*)
(* is a date and a time of day; replace(day=...) and timedelta(days=1)     *)
(* leave the time of day as it is, strftime('%Y-%m-%d') drops it.          *)
(***************************************************************************)
Moment(d, h) == [year |-> d.year, month |-> d.month, day |-> d.day, hour |-> h]

\* the datetime on day d that has the time of day of now
AtTime(d, now) == Moment(d, now.hour)

\* (today.replace(day=1) - timedelta(days=1)).replace(day=1)
FirstOfPrevMonth(dt) == AtTime(ReplaceDay(MinusOneDay(ReplaceDay(dt, 1)), 1), dt)

\* (first, first.replace(day=calendar.monthrange(year, month)[1]))
WholeMonth(first) ==
    <<first,
      AtTime(ReplaceDay(first, monthrange(first.year, first.month)), first)>>

\* dates as line 328 leaves it.  get_date_ranges may raise; otherwise the
\* call raises at line 336, where start is the str of the 'ftd' range and
\* has no strftime
fetch_all_period_data(now) ==
    LET ranges          == get_date_ranges(now)
        prev_month      == FirstOfPrevMonth(now)
        prev_prev_month == FirstOfPrevMonth(prev_month)
    IN  IF ranges.exc /= "None" THEN ranges
        ELSE [exc |-> "AttributeError",
              val |-> [ftd  |-> ranges.val.ftd,
                       mtd  |-> ranges.val.mtd,
                       lmtd |-> ranges.val.lmtd,
                       prev |-> WholeMonth(prev_month),
                       prev_prev |-> WholeMonth(prev_prev_month)]]

(***************************************************************************)
(* A process resolves the periods more than once while the clock runs.     *)
(* dates is the outcome of the latest resolution and today the clock it    *)
(* read; result keeps the clock and the outcome of the one before.         *)
(***************************************************************************)
MaxCalls == 2

ClockDates ==
    {Date(2023, 3, 30), Date(2023, 3, 31), Date(2023, 4, 1),
     Date(2023, 4, 11), Date(2024, 1, 1), Date(2024, 3, 1)}
ClockHours == {9, 17}
Moments == {Moment(d, h) : d \in ClockDates, h \in ClockHours}

\* the clock does not run backwards
Stamp(m) == ((m.year * 12 + m.month) * 31 + m.day) * 24 + m.hour
NotBefore(earlier, later) == Stamp(earlier) <= Stamp(later)

Resolvers == {"get_date_ranges", "fetch_all_period_data"}

InitPeriods ==
    /\ pc \in Resolvers
    /\ today = NotRead
    /\ dates = [exc |-> "None", val |-> NoValue]
    /\ dfs = NoDfs
    /\ work = EmptyWork
    /\ result = NoTable
    /\ run = NoRun
    /\ mail = NoMail

CallGetDateRanges ==
    /\ pc = "get_date_ranges"
    /\ run.i < MaxCalls
    /\ \E now \in Moments :
          /\ run.i > 0 => NotBefore(today, now)
          /\ today' = now
          /\ dates' = get_date_ranges(now)
    /\ result' = IF run.i = 0 THEN result ELSE [at |-> today, ranges |-> dates]
    /\ run' = [run EXCEPT !.i = @ + 1]
    /\ UNCHANGED <<mail, pc, dfs, work>>

CallFetchAllPeriodData ==
    /\ pc = "fetch_all_period_data"
    /\ run.i < MaxCalls
    /\ \E now \in Moments :
          /\ run.i > 0 => NotBefore(today, now)
          /\ today' = now
          /\ dates' = fetch_all_period_data(now)
    /\ result' = IF run.i = 0 THEN result ELSE [at |-> today, ranges |-> dates]
    /\ run' = [run EXCEPT !.i = @ + 1]
    /\ UNCHANGED <<mail, pc, dfs, work>>

NextPeriods ==
    \/ CallGetDateRanges
    \/ CallFetchAllPeriodData

SpecPeriods == InitPeriods /\ [][NextPeriods]_vars

(***************************************************************************)
(* Properties of the period resolution (checked under SpecPeriods).        *)
(***************************************************************************)
\* the periods were resolved twice on the same reference date
ResolvedTwiceSameDate ==
    /\ run.i >= 2
    /\ Date(result.at.year, result.at.month, result.at.day) =
           Date(today.year, today.month, today.day)

\* C19: resolving the periods twice for the same reference date yields
\* identical FTD, MTD, LMTD and prior-month ranges.
C19_ResolutionIdempotent == ResolvedTwiceSameDate => dates = result.ranges


(***************************************************************************)
(* Totals of the hierarchical summary (checked under SpecSummary).         *)
(***************************************************************************)
HierReturned == pc = "hier_done" /\ result.exc = "None"

\* the cells of a row of the table, column by column
HierValues(r) ==
    [FTD |-> r.FTD, MTD |-> r.MTD, LMTD |-> r.LMTD, Jan25 |-> r.Jan25,
     Dec24 |-> r.Dec24, Growth |-> r.Growth, Proj |-> r.Proj]

\* C21: in the hierarchical summary the 'Grand Total' row is the sum of all
\* aggregator rows and each 'Total - <type>' row is the sum of exactly the
\* '<aggregator> - <type>' rows of that type, in every column, whatever
\* characters the names contain.
C21_TotalsByRole ==
    HierReturned =>
        \A i \in DOMAIN work.rows :
            LET r == work.rows[i]
            IN  /\ r.kind = "grand" =>
                       HierValues(r) =
                           HierSums(SelectSeq(work.rows,
                                        LAMBDA x : x.kind = "org"), today)
                /\ r.kind = "total" =>
                       HierValues(r) =
                           HierSums(SelectSeq(work.rows,
                                        LAMBDA x : x.kind = "type"
                                                   /\ x.typ = r.typ), today)


(***************************************************************************)
(* analysis.create_od_agent_pivot: the OD records by aggregator and agent, *)
(* with a 'Total' row per aggregator and a 'Grand Total' row.              *)
(***************************************************************************)
\* the agent names of the records, in sorted order
AgentNames == << <<"Bot1">>, <<"Bot2">> >>

\* od_data = df[df['vcType'] == 'OD']
OdData(df) == SelectSeq(df, LAMBDA r : r.vcType = <<"OD">>)

HasAgent(od_data, org, agent) ==
    \E i \in DOMAIN od_data :
        od_data[i].vcORGName = org /\ od_data[i].vcAgentName = agent

\* aggfunc='sum' of one value column for one (aggregator, agent), .round(2)
AgentSum(od_data, org, agent, value) ==
    Round2(SumCells([i \in DOMAIN od_data |->
                        IF /\ od_data[i].vcORGName = org
                           /\ od_data[i].vcAgentName = agent
                        THEN Q(od_data[i][value], 1) ELSE Q(0, 1)], 1))

AgentRow(org, agent, kind, sent, delivered) ==
    [Index |-> org \o agent, kind |-> kind, owner |-> org, sub |-> agent,
     Sent |-> sent, Delivered |-> delivered]

\* pivot_table sorts its value columns by name: iTotalDelivered comes
\* before iTotalSentSuccess, and pivot.columns = ['Sent', 'Delivered']
\* names them by position
AgentPivot(od_data) ==
    Concat([i \in DOMAIN OrgNames |->
        Concat([j \in DOMAIN AgentNames |->
            IF HasAgent(od_data, OrgNames[i], AgentNames[j])
            THEN <<AgentRow(OrgNames[i], AgentNames[j], "agent",
                       AgentSum(od_data, OrgNames[i], AgentNames[j],
                                "iTotalDelivered"),
                       AgentSum(od_data, OrgNames[i], AgentNames[j],
                                "iTotalSentSuccess"))>>
            ELSE <<>>])])

\* the column sums of result, which holds the 'Total' rows as well
GrandTotalOfResult(pivot, result_rows) ==
    AgentRow(<<"Grand", "Total">>, <<"">>, "grand",
             SumCells(Column(result_rows, "Sent"), 100),
             SumCells(Column(result_rows, "Delivered"), 100))

\* pivot['Sent'].sum(), pivot['Delivered'].sum(): the agent rows, without
\* the 'Total' rows added to result
GrandTotalOfPivot(pivot, result_rows) ==
    AgentRow(<<"Grand", "Total">>, <<"">>, "grand",
             SumCells(Column(pivot, "Sent"), 100),
             SumCells(Column(pivot, "Delivered"), 100))

\* result.loc[(org, 'Total')] = pivot.loc[org].sum(), for the aggregators
\* in their order of appearance
OrgSubtotals(pivot, od_data) ==
    LET orgs == UniqueInOrder([i \in DOMAIN od_data |-> od_data[i].vcORGName],
                              {})
    IN  [k \in DOMAIN orgs |->
            LET org_data == SelectSeq(pivot, LAMBDA r : r.owner = orgs[k])
            IN  AgentRow(orgs[k], <<"Total">>, "total",
                         SumCells(Column(org_data, "Sent"), 100),
                         SumCells(Column(org_data, "Delivered"), 100))]

\* with no OD record the pivot has no columns and the rename raises
create_od_agent_pivot(df) ==
    IF df = <<>> THEN [exc |-> "None", rows |-> <<>>, cols |-> <<>>]
    ELSE IF OdData(df) = <<>>
    THEN [exc |-> "ValueError", rows |-> <<>>, cols |-> <<>>]
    ELSE LET pivot == AgentPivot(OdData(df))
             rows  == pivot \o OrgSubtotals(pivot, OdData(df))
         IN  [exc |-> "None",
              rows |-> Append(rows, GrandTotalOfPivot(pivot, rows)),
              cols |-> << <<"Sent">>, <<"Delivered">> >>]

(***************************************************************************)
(* A caller fetches the traffic records and builds the OD Summary sheet.   *)
(***************************************************************************)
MaxAgentRows == 3

AgentRecords ==
    [vcORGName : SeqRange(OrgNames), vcAgentName : SeqRange(AgentNames),
     vcType : {<<"Enterprise">>, <<"OD">>},
     iTotalSentSuccess : {2, 3}, iTotalDelivered : {1}]

InitAgent ==
    /\ pc = "od_agent"
    /\ today = NotRead
    /\ dates = [exc |-> "None", val |-> NoValue]
    /\ dfs = [raw |-> <<>>]
    /\ work = EmptyWork
    /\ result = NoTable
    /\ run = NoRun
    /\ mail = NoMail

FetchAgentRow ==
    /\ pc = "od_agent"
    /\ Len(dfs.raw) < MaxAgentRows
    /\ \E r \in AgentRecords : dfs' = [dfs EXCEPT !.raw = Append(@, r)]
    /\ UNCHANGED <<pc, today, dates, work, result, run, mail>>

CreateOdAgentPivot ==
    /\ pc = "od_agent"
    /\ result' = create_od_agent_pivot(dfs.raw)
    /\ pc' = "od_agent_done"
    /\ UNCHANGED <<today, dates, dfs, work, run, mail>>

NextAgent ==
    \/ FetchAgentRow
    \/ CreateOdAgentPivot

SpecAgent == InitAgent /\ [][NextAgent]_vars

(***************************************************************************)
(* Properties of the OD Summary sheet (checked under SpecAgent).           *)
(***************************************************************************)
AgentReturned == pc = "od_agent_done" /\ result.exc = "None"

AgentRowsOf(rows, org) ==
    SelectSeq(rows, LAMBDA r : r.kind = "agent" /\ r.owner = org)

OdSummaryReturned == pc = "od_summary_done" /\ result.exc = "None"

\* the cells of a row of the table, column by column
OdSummaryValues(r) ==
    [ftd |-> r.ftd, mtd |-> r.mtd, lmtd |-> r.lmtd, Growth |-> r.Growth,
     Proj |-> r.Proj, prev |-> r.prev, prev_prev |-> r.prev_prev]

\* C23: in every column the ('Grand Total', part type) row is the sum of the
\* (aggregator, part type) rows of the returned table, whatever aggregators
\* the input names.
C23_GrandTotalOfShownRows ==
    OdSummaryReturned =>
        \A i \in DOMAIN work.rows :
            LET r == work.rows[i]
            IN  r.kind = "grand" =>
                    OdSummaryValues(r) =
                        OdSummarySums(SelectSeq(work.rows,
                                          LAMBDA x : x.kind = "part"
                                                     /\ x.typ = r.typ), today)


(***************************************************************************)
(* The part types of od.create_od_pivot (checked under SpecPivot).         *)
(***************************************************************************)
OdReturned == pc = "od_done" /\ result.exc = "None"

\* row r agrees with the sum of rows part in the historical-month columns
HistoryAddsUp(r, part) ==
    /\ r.m1.n = ColTotal(part, "m1")
    /\ r.m2.n = ColTotal(part, "m2")

IsFinite(c) == ~c.nan /\ c.inf = 0

\* C25: in the tables of app.create_rcs_pivot and app.create_od_pivot the
\* Growth of every row that has an MTD and an LMTD value, the total rows
\* included, is a finite number, also when the LMTD value is 0.
C25_GrowthIsFinite ==
    (RatioReturned /\ pc \in {"rcs_done", "app_od_done"}) =>
        \A i \in DOMAIN result.rows :
            (IsFinite(result.rows[i].MTD) /\ IsFinite(result.rows[i].LMTD)) =>
                IsFinite(result.rows[i].Growth)


(***************************************************************************)
(* Independence of the two summaries (checked under SpecMain).             *)
(***************************************************************************)
\* building the RCS summary raised
RcsSummaryRaised ==
    /\ DOMAIN run.rcs_dfs /= {}
    /\ create_rcs_pivot(run.rcs_dfs, today).exc /= "None"

\* OD records were fetched and the OD summary can be built from them
OdSummaryBuildable ==
    /\ DOMAIN run.od_dfs /= {}
    /\ app_create_od_pivot(run.od_dfs, today).exc = "None"

\* C26: when building the RCS summary raises, the OD summary is still built
\* and displayed if OD records were fetched; the error of a run is the one
\* reported and main returns.
C26_SummariesIndependent ==
    (MainDone /\ RcsSummaryRaised /\ OdSummaryBuildable) =>
        /\ ShownTables("OD Traffic Summary") /= <<>>
        /\ run.error /= "None"

====
